---- MODULE Spec2Model ----
(***************************************************************************)
(* A model of the crossword CSP solver of src/generate.py: the domain      *)
(* store, node consistency, revise, AC-3 and the backtracking search of    *)
(* class CrosswordCreator.  Words are sequences of letters; offsets are    *)
(* 0-based as in the Python code, so the letter at offset i of word w is   *)
(* w[i + 1].                                                               *)
(*                                                                         *)
(* A client owns one CrosswordCreator and calls its public methods in any  *)
(* order: enforce_node_consistency, revise, ac3 and solve (main calls      *)
(* solve alone).  It calls revise and ac3 on node-consistent domains only, *)
(* as word[i] requires.  Where Python leaves an order open (the iteration  *)
(* over a set or a dict) every order is a behaviour of the model.          *)
(*                                                                         *)
(* Spec is that client.  SpecFair is the runs of solve alone, the running  *)
(* method always taking its next step.  SpecAnyOrder runs ac3 on a list of *)
(* arcs of the client's and pops any arc of it, not the last only.         *)
(* SpecMethods calls the two heuristics of the search, on word lists over  *)
(* three letters.                                                          *)
(***************************************************************************)
EXTENDS Integers, Sequences, FiniteSets, TLC

\* ------------------------------------------------------------------------
\* Bounds of the model
\* ------------------------------------------------------------------------

\* the largest word list (crossword.words) Init draws
MaxWords == 4

\* the longest list of arcs, short of all arcs, a client passes to ac3
MaxArcs == 2

\* ------------------------------------------------------------------------
\* The constraint graph (module crossword: Variable, Crossword)
\* ------------------------------------------------------------------------

ACROSS == "across"

DOWN == "down"

\* a slot: start cell (i, j), direction, length
Var(i, j, d, l) == [i |-> i, j |-> j, direction |-> d, length |-> l]

\* the cells a slot occupies, in order (cells[k + 1] is the cell at offset k)
Cells(v) ==
    [k \in 1..v.length |->
        << v.i + (IF v.direction = DOWN THEN k - 1 ELSE 0),
           v.j + (IF v.direction = ACROSS THEN k - 1 ELSE 0) >>]

\* the grids Init draws from: no slot, one isolated slot, two crossing slots,
\* an H of three slots (two DOWN slots joined by one ACROSS slot), a ring of
\* four slots around a blocked cell, and a comb (one ACROSS slot crossed by
\* three DOWN slots)
StructEmpty == {}

StructSingle == {Var(0, 0, ACROSS, 2)}

StructCross == {Var(0, 0, ACROSS, 3), Var(0, 1, DOWN, 2)}

StructH == {Var(0, 0, DOWN, 3), Var(0, 2, DOWN, 2), Var(1, 0, ACROSS, 3)}

StructRing ==
    {Var(0, 0, ACROSS, 3), Var(2, 0, ACROSS, 3), Var(0, 0, DOWN, 3), Var(0, 2, DOWN, 3)}

StructComb ==
    {Var(1, 0, ACROSS, 3), Var(0, 0, DOWN, 2), Var(1, 1, DOWN, 2), Var(0, 2, DOWN, 2)}

Structures ==
    {StructEmpty, StructSingle, StructCross, StructH, StructRing, StructComb}

\* the words a word list is drawn from: words of length 2 and 3 over the
\* letters A and B, and one word of a length no slot has
Vocabulary ==
    { <<"A">>,
      <<"A", "B">>, <<"B", "A">>,
      <<"A", "A", "B">>, <<"B", "A", "A">>, <<"A", "B", "A">> }

\* the same with a word on a third letter
VocabularyABC == Vocabulary \cup { <<"C", "A">> }

\* the absent value (Python's None), and a present value
None == <<>>

Some(v) == <<v>>

VARIABLES
    variables,   \* crossword.variables
    overlaps,    \* crossword.overlaps
    words,       \* crossword.words
    domains,     \* self.domains
    pc,          \* where the program is
    caller,      \* "client" or "solve": who called the running ac3
    arcsInit,    \* arcs: the part of the initial list not popped yet
    arcs,        \* arcs: the arcs appended during the run (a stack)
    stack,       \* the frames of backtrack, the innermost last
    assignment,  \* the assignment dict shared by all frames
    result,      \* the value the last backtrack frame returned
    ret,         \* the last completed call and what it returned
    emptied,     \* history: a revise of this ac3 run emptied a domain
    fixedPoint,  \* history: ac3 returned true on the present store
    solutions,   \* the solutions of the crossword over the word list
    start        \* history: the domains and arcs ac3(arcs) was called with

vars == << variables, overlaps, words, domains, pc, caller, arcsInit, arcs, stack,
           assignment, result, ret, emptied, fixedPoint, solutions, start >>

\* Crossword.__init__: overlaps[x, y] for a pair of distinct variables is
\* None, or the offsets in x and in y of the cell they share
ComputeOverlap(x, y) ==
    LET cx == Cells(x)
        cy == Cells(y)
        common == {c \in {cx[k] : k \in DOMAIN cx} : \E k \in DOMAIN cy : cy[k] = c}
    IN  IF common = {} THEN None
        ELSE LET c == CHOOSE c \in common : TRUE
                 i == CHOOSE k \in DOMAIN cx : cx[k] = c
                 j == CHOOSE k \in DOMAIN cy : cy[k] = c
             IN  << i - 1, j - 1 >>

ComputeOverlaps(vs) ==
    [p \in {q \in vs \X vs : q[1] # q[2]} |-> ComputeOverlap(p[1], p[2])]

\* crossword.overlaps.get((x, y))
Overlap(x, y) == IF <<x, y>> \in DOMAIN overlaps THEN overlaps[<<x, y>>] ELSE None

\* crossword.neighbors(var)
Neighbors(var) == {v \in variables : v # var /\ Overlap(v, var) # None}

\* word[k] of the Python code
At(word, k) == word[k + 1]

\* ------------------------------------------------------------------------
\* The domain store: __init__, enforce_node_consistency, revise
\* ------------------------------------------------------------------------

\* the record of the last completed call: its name, arguments, the domains
\* it started from (kept for revise only) and the value it returned
Returned(op, args, pre, val) == [op |-> op, args |-> args, pre |-> pre, val |-> val]

NoCall == Returned("none", <<>>, <<>>, None)

EmptyAssignment == [v \in {} |-> <<>>]

\* the complete assignments over the word list that give every variable a
\* word of its length and agree on every shared cell
Solutions(vs, ov, ws) ==
    {a \in [vs -> ws] :
        /\ \A v \in vs : Len(a[v]) = v.length
        /\ \A p \in DOMAIN ov :
              ov[p] # None => At(a[p[1]], ov[p][1]) = At(a[p[2]], ov[p][2])}

\* the call ac3(arcs) on the domains d, and no such call
Started(d, worklist) == [domains |-> d, arcs |-> worklist]

NoStart == Started(<<>>, {})

\* CrosswordCreator.__init__ on a crossword whose word list is drawn from
\* vocabulary: every variable starts with a copy of all words
InitWith(vocabulary) ==
    /\ variables \in Structures
    /\ overlaps = ComputeOverlaps(variables)
    /\ words \in {ws \in SUBSET vocabulary : Cardinality(ws) <= MaxWords}
    /\ domains = [v \in variables |-> words]
    /\ pc = "idle"
    /\ caller = "client"
    /\ arcsInit = {}
    /\ arcs = <<>>
    /\ stack = <<>>
    /\ assignment = EmptyAssignment
    /\ result = None
    /\ ret = NoCall
    /\ emptied = FALSE
    /\ fixedPoint = FALSE
    /\ solutions = Solutions(variables, overlaps, words)
    /\ start = NoStart

Init == InitWith(Vocabulary)

\* enforce_node_consistency as it would be with <= for ==: shorter words stay
NodeConsistentAtMost(d) ==
    [v \in DOMAIN d |-> {word \in d[v] : Len(word) <= v.length}]

\* enforce_node_consistency as it would be if it filtered crossword.words
\* and not the domain
NodeConsistentFromWords(d) ==
    [v \in DOMAIN d |-> {word \in words : Len(word) = v.length}]

\* enforce_node_consistency: the domains it leaves
NodeConsistent(d) ==
    [v \in DOMAIN d |-> {word \in d[v] : Len(word) = v.length}]

\* revise as it would be with all() for any(): a word of x stays only if
\* every word of y supports it
ToRemoveUnlessAll(d, x, y) ==
    LET overlap == Overlap(x, y)
    IN  IF overlap = None THEN {}
        ELSE {word_x \in d[x] :
                ~ \A word_y \in d[y] :
                    At(word_y, overlap[2]) = At(word_x, overlap[1])}

\* revise as it would be without the not: a word of x goes when some word
\* of y supports it
ToRemoveSupported(d, x, y) ==
    LET overlap == Overlap(x, y)
    IN  IF overlap = None THEN {}
        ELSE {word_x \in d[x] :
                \E word_y \in d[y] : At(word_y, overlap[2]) = At(word_x, overlap[1])}

\* revise: to_remove, the words of x with no supporting word in y
ToRemove(d, x, y) ==
    LET overlap == Overlap(x, y)
    IN  IF overlap = None THEN {}
        ELSE {word_x \in d[x] :
                ~ \E word_y \in d[y] : At(word_y, overlap[2]) = At(word_x, overlap[1])}

\* revise: the domains it leaves
ReviseDomains(d, x, y) == [d EXCEPT ![x] = d[x] \ ToRemove(d, x, y)]

\* revise as it would be if it set revised whenever there is an overlap
RevisedWhenOverlap(d, x, y) == Overlap(x, y) # None

\* revise: the value it returns
Revised(d, x, y) == ToRemove(d, x, y) # {}

\* every word of every domain has the length of its variable: what the
\* client establishes (by enforce_node_consistency) before it calls revise
\* or ac3, whose word[i] would otherwise raise IndexError
LengthsOk(d) == \A v \in DOMAIN d : \A word \in d[v] : Len(word) = v.length

\* the history flag: ac3 has returned true on the store and it is unchanged
StillFixed(d) == fixedPoint /\ d = domains

\* no ac3 is running: its worklist and the history of its run are gone
NoWorklist ==
    /\ arcsInit' = {}
    /\ arcs' = <<>>
    /\ emptied' = FALSE

\* the client calls enforce_node_consistency()
CallEnforceNodeConsistency ==
    /\ pc = "idle"
    /\ domains' = NodeConsistent(domains)
    /\ ret' = Returned("enforce_node_consistency", <<>>, <<>>, None)
    /\ fixedPoint' = StillFixed(domains')
    /\ NoWorklist
    /\ UNCHANGED << variables, overlaps, words, solutions, start, pc, caller, stack, assignment, result >>

\* the client calls revise(x, y)
CallRevise ==
    /\ pc = "idle"
    /\ LengthsOk(domains)
    /\ \E x \in variables, y \in variables :
          /\ domains' = ReviseDomains(domains, x, y)
          /\ ret' = Returned("revise", <<x, y>>, domains, Revised(domains, x, y))
    /\ fixedPoint' = StillFixed(domains')
    /\ NoWorklist
    /\ UNCHANGED << variables, overlaps, words, solutions, start, pc, caller, stack, assignment, result >>

\* ------------------------------------------------------------------------
\* AC-3
\* ------------------------------------------------------------------------

\* ac3, arcs is None: every (x, y) with y a neighbor of x.  The list's order
\* is the iteration order of a dict and of sets, which Python leaves open: the
\* initial list is kept as the set arcsInit, and a pop that finds no appended
\* arc on top takes any arc of it.
AllArcs == {a \in variables \X variables : a[2] \in Neighbors(a[1])}

\* ac3 is entered with the default worklist
Ac3Enter(who) ==
    /\ arcsInit' = AllArcs
    /\ arcs' = <<>>
    /\ emptied' = FALSE
    /\ caller' = who
    /\ pc' = "ac3"

\* the client calls ac3()
CallAc3 ==
    /\ pc = "idle"
    /\ LengthsOk(domains)
    /\ Ac3Enter("client")
    /\ ret' = NoCall
    /\ UNCHANGED << variables, overlaps, words, solutions, start, domains, stack, assignment, result,
                    fixedPoint >>

\* ac3 returns val, leaving the domains d and what is left of the worklist:
\* to the client, or to solve, which drops the value and calls
\* backtrack(dict())
Ac3Leave(val, d) ==
    /\ domains' = d
    /\ ret' = Returned("ac3", <<>>, <<>>, val)
    /\ fixedPoint' = (val \/ StillFixed(d))
    /\ IF caller = "solve"
       THEN /\ pc' = "backtrack"
            /\ assignment' = EmptyAssignment
       ELSE /\ pc' = "idle"
            /\ UNCHANGED assignment
    /\ UNCHANGED << variables, overlaps, words, solutions, start, caller, stack, result >>

\* the sequences that list every element of the set S once: the orders in
\* which Python may iterate over a set
Orders(S) ==
    {s \in [1..Cardinality(S) -> S] : \A e \in S : \E k \in DOMAIN s : s[k] = e}

\* ac3 as it would be if it appended nothing
NewArcsNone(x, y) == {}

\* ac3 as it would be if it appended (x, z) for (z, x)
NewArcsSwapped(x, y) == {<<x, z>> : z \in Neighbors(x) \ {y}}

\* ac3: the arcs appended after revise(x, y) changed the domain of x
NewArcs(x, y) == {<<z, x>> : z \in Neighbors(x) \ {y}}

\* ac3 as it would be if it did not test what revise returned
Ac3FailsOnEmpty(revised, d, x) == d[x] = {}

\* ac3: whether the turn returns False, revise(x, y) having returned revised
\* and left the domains d
Ac3Fails(revised, d, x) == revised /\ d[x] = {}

\* one turn of ac3's loop on the arc (x, y) popped, the worklist left being
\* rest (the initial part) and tail (the appended part)
Ac3Turn(x, y, rest, tail) ==
    LET d == ReviseDomains(domains, x, y)
        revised == Revised(domains, x, y)
    IN  /\ emptied' = (emptied \/ (d[x] # domains[x] /\ d[x] = {}))
        /\ arcsInit' = rest
        /\ IF Ac3Fails(revised, d, x)
           THEN /\ Ac3Leave(FALSE, d)
                /\ arcs' = tail
           ELSE /\ domains' = d
                /\ fixedPoint' = StillFixed(d)
                /\ IF revised
                   THEN \E new \in Orders(NewArcs(x, y)) : arcs' = tail \o new
                   ELSE arcs' = tail
                /\ UNCHANGED << variables, overlaps, words, solutions, start, pc, caller, stack,
                                assignment, result, ret >>

\* ac3's loop: pop the last arc and revise it, or return true when the
\* worklist is empty
Ac3Step ==
    /\ pc = "ac3"
    /\ IF arcs # <<>>
       THEN Ac3Turn(arcs[Len(arcs)][1], arcs[Len(arcs)][2], arcsInit,
                    SubSeq(arcs, 1, Len(arcs) - 1))
       ELSE IF arcsInit # {}
       THEN \E a \in arcsInit : Ac3Turn(a[1], a[2], arcsInit \ {a}, <<>>)
       ELSE Ac3Leave(TRUE, domains) /\ UNCHANGED << arcsInit, arcs, emptied >>

\* ------------------------------------------------------------------------
\* solve and the backtracking search
\* ------------------------------------------------------------------------

\* the client calls solve(): node consistency, then ac3 is entered
CallSolve ==
    /\ pc = "idle"
    /\ domains' = NodeConsistent(domains)
    /\ fixedPoint' = StillFixed(domains')
    /\ Ac3Enter("solve")
    /\ ret' = NoCall
    /\ assignment' = EmptyAssignment
    /\ result' = None
    /\ UNCHANGED << variables, overlaps, words, solutions, start, stack >>

\* assignment_complete
AssignmentComplete(a) == DOMAIN a = variables

\* consistent as it would be without the test of the overlaps
ConsistentLengthsOnly(a) == \A var \in DOMAIN a : Len(a[var]) = var.length

\* consistent as it would be if it also required the words to be distinct
ConsistentDistinct(a) ==
    /\ \A var \in DOMAIN a : \A other \in DOMAIN a : var # other => a[var] # a[other]
    /\ \A var \in DOMAIN a :
          /\ Len(a[var]) = var.length
          /\ \A neighbor \in Neighbors(var) :
                neighbor \in DOMAIN a =>
                   LET overlap == Overlap(var, neighbor)
                   IN  overlap # None =>
                          At(a[var], overlap[1]) = At(a[neighbor], overlap[2])

\* consistent
Consistent(a) ==
    \A var \in DOMAIN a :
        /\ Len(a[var]) = var.length
        /\ \A neighbor \in Neighbors(var) :
              neighbor \in DOMAIN a =>
                 LET overlap == Overlap(var, neighbor)
                 IN  overlap # None =>
                        At(a[var], overlap[1]) = At(a[neighbor], overlap[2])

\* count_conflicts as it would be without the test neighbor not in
\* assignment
CountConflictsAllNeighbors(var, a, value) ==
    Cardinality({neighbor \in Neighbors(var) :
        \E word \in domains[neighbor] :
            At(value, Overlap(var, neighbor)[1]) # At(word, Overlap(var, neighbor)[2])})

\* order_domain_values, count_conflicts: the unassigned neighbors some word
\* of whose domain differs from value at the overlap
CountConflicts(var, a, value) ==
    Cardinality({neighbor \in Neighbors(var) :
        /\ neighbor \notin DOMAIN a
        /\ \E word \in domains[neighbor] :
              At(value, Overlap(var, neighbor)[1]) # At(word, Overlap(var, neighbor)[2])})

\* order_domain_values: the lists sorted(domains[var], key=count_conflicts)
\* may return, the order of equal keys being the set's iteration order
SortedByConflicts(var, a, values) ==
    {vs \in Orders(values) :
        \A k \in DOMAIN vs : \A l \in DOMAIN vs :
            k < l => CountConflicts(var, a, vs[k]) <= CountConflicts(var, a, vs[l])}

OrderDomainValues(var, a) == SortedByConflicts(var, a, domains[var])

\* select_unassigned_variable as it would be if it preferred the variable
\* with the most values left
SelectKeyMostValues(var) ==
    << 0 - Cardinality(domains[var]), 0 - Cardinality(Neighbors(var)) >>

\* select_unassigned_variable as it would be without the minus: the
\* variable with the fewest neighbors wins a tie
SelectKeyFewestNeighbors(var) ==
    << Cardinality(domains[var]), Cardinality(Neighbors(var)) >>

\* select_unassigned_variable: the key min() compares, as a pair
SelectKey(var) == << Cardinality(domains[var]), 0 - Cardinality(Neighbors(var)) >>

\* Python's tuple order on pairs
PairLeq(p, q) == p[1] < q[1] \/ (p[1] = q[1] /\ p[2] <= q[2])

\* select_unassigned_variable: the variables min() may return, the first of
\* the least ones in the set's iteration order
SelectUnassignedVariable(a) ==
    LET unassigned == {var \in variables : var \notin DOMAIN a}
    IN  {var \in unassigned :
            \A other \in unassigned : PairLeq(SelectKey(var), SelectKey(other))}

\* assignment[var] = value
Bind(a, var, value) ==
    [v \in DOMAIN a \cup {var} |-> IF v = var THEN value ELSE a[v]]

\* backtrack as it would be without assignment.pop(var)
UnbindNothing(a, var) == a

\* assignment.pop(var)
Unbind(a, var) == [v \in DOMAIN a \ {var} |-> a[v]]

\* a frame of backtrack: its variable and the values of its ordered list it
\* has not tried yet.  The list is sorted by count_conflicts and the order of
\* equal keys is open, so the next value is the head of any ordered list of
\* the values left.  entry is history: the assignment the call began with.
Frame(var, values, entry) == [var |-> var, values |-> values, entry |-> entry]

\* the for loop as it would be if it never moved on from a value
LeftSame(left, value) == left

\* the values left to the for loop once it has taken value
Left(left, value) == left \ {value}

\* the values the for loop may take next from the values left
NextValues(var, a, left) ==
    {value \in left :
        \A other \in left : CountConflicts(var, a, value) <= CountConflicts(var, a, other)}

Top == stack[Len(stack)]

Pop(st) == SubSeq(st, 1, Len(st) - 1)

\* backtrack is entered: return the assignment when complete, else select
\* a variable and order its values
BacktrackEnter ==
    /\ pc = "backtrack"
    /\ IF AssignmentComplete(assignment)
       THEN /\ result' = Some(assignment)
            /\ pc' = "return"
            /\ UNCHANGED stack
       ELSE /\ \E var \in SelectUnassignedVariable(assignment) :
               \E values \in OrderDomainValues(var, assignment) :
                  stack' = Append(stack, Frame(var, {values[k] : k \in DOMAIN values},
                                               assignment))
            /\ pc' = "loop"
            /\ UNCHANGED result
    /\ UNCHANGED << variables, overlaps, words, solutions, start, domains, caller, arcsInit, arcs,
                    assignment, ret, emptied, fixedPoint >>

\* the for loop of backtrack: bind the next value, or return None when the
\* values are exhausted
BacktrackLoop ==
    /\ pc = "loop"
    /\ IF Top.values # {}
       THEN /\ \E value \in NextValues(Top.var, assignment, Top.values) :
                  /\ assignment' = Bind(assignment, Top.var, value)
                  /\ stack' = [stack EXCEPT ![Len(stack)].values = Left(@, value)]
            /\ pc' = "check"
            /\ UNCHANGED result
       ELSE /\ stack' = Pop(stack)
            /\ result' = None
            /\ pc' = "return"
            /\ UNCHANGED assignment
    /\ UNCHANGED << variables, overlaps, words, solutions, start, domains, caller, arcsInit, arcs,
                    ret, emptied, fixedPoint >>

\* backtrack as it would be if it narrowed the domain of the variable to
\* the value bound (inference during the search, never undone)
BacktrackCheckNarrowing ==
    /\ pc = "check"
    /\ pc' = IF Consistent(assignment) THEN "backtrack" ELSE "pop"
    /\ domains' = [domains EXCEPT ![Top.var] = {assignment[Top.var]}]
    /\ UNCHANGED << variables, overlaps, words, solutions, start, caller, arcsInit, arcs,
                    stack, assignment, result, ret, emptied, fixedPoint >>

\* if self.consistent(assignment): recurse, else go on to the pop
BacktrackCheck ==
    /\ pc = "check"
    /\ pc' = IF Consistent(assignment) THEN "backtrack" ELSE "pop"
    /\ UNCHANGED << variables, overlaps, words, solutions, start, domains, caller, arcsInit, arcs, stack,
                    assignment, result, ret, emptied, fixedPoint >>

\* assignment.pop(var), and on to the next value
BacktrackPop ==
    /\ pc = "pop"
    /\ assignment' = Unbind(assignment, Top.var)
    /\ pc' = "loop"
    /\ UNCHANGED << variables, overlaps, words, solutions, start, domains, caller, arcsInit, arcs, stack,
                    result, ret, emptied, fixedPoint >>

\* a call of backtrack has returned result: to solve, which returns it to
\* the client, or to the frame that made the call, which returns it when it
\* is not None and else goes on to the pop
BacktrackReturn ==
    /\ pc = "return"
    /\ IF stack = <<>>
       THEN /\ ret' = Returned("solve", <<>>, <<>>, result)
            /\ pc' = "idle"
            /\ assignment' = EmptyAssignment
            /\ result' = None
            /\ NoWorklist
            /\ UNCHANGED stack
       ELSE IF result # None
       THEN /\ stack' = Pop(stack)
            /\ UNCHANGED << pc, ret, assignment, result, arcsInit, arcs, emptied >>
       ELSE /\ pc' = "pop"
            /\ UNCHANGED << stack, ret, assignment, result, arcsInit, arcs, emptied >>
    /\ UNCHANGED << variables, overlaps, words, solutions, start, domains, caller, fixedPoint >>

Next ==
    \/ CallEnforceNodeConsistency
    \/ CallRevise
    \/ CallAc3
    \/ CallSolve
    \/ Ac3Step
    \/ BacktrackEnter
    \/ BacktrackLoop
    \/ BacktrackCheck
    \/ BacktrackPop
    \/ BacktrackReturn

Spec == Init /\ [][Next]_vars

\* a step of a running method: Python runs a call until it returns
Running ==
    \/ Ac3Step
    \/ BacktrackEnter
    \/ BacktrackLoop
    \/ BacktrackCheck
    \/ BacktrackPop
    \/ BacktrackReturn

\* the client calls solve and nothing else, as main does
NextSolve ==
    \/ CallSolve
    \/ Running

\* the runs of solve, the running method always taking its next step
SpecFair == Init /\ [][NextSolve]_vars /\ WF_vars(Running)

\* ------------------------------------------------------------------------
\* ac3 on a worklist of the caller's, popped in any order
\* ------------------------------------------------------------------------

\* one order in which Python may iterate over the set S
RECURSIVE SeqOf(_)
SeqOf(S) ==
    IF S = {} THEN <<>>
    ELSE LET e == CHOOSE e \in S : TRUE IN <<e>> \o SeqOf(S \ {e})

\* ac3(arcs) run to its end on the domains d, as coded: the last arc of the
\* list is popped, the new arcs are appended.  It yields the value returned
\* and the domains left.
RECURSIVE Ac3(_, _)
Ac3(d, worklist) ==
    IF worklist = <<>> THEN [val |-> TRUE, domains |-> d]
    ELSE LET x == worklist[Len(worklist)][1]
             y == worklist[Len(worklist)][2]
             e == ReviseDomains(d, x, y)
             revised == Revised(d, x, y)
             tail == SubSeq(worklist, 1, Len(worklist) - 1)
         IN  IF Ac3Fails(revised, e, x) THEN [val |-> FALSE, domains |-> e]
             ELSE Ac3(e, IF revised THEN tail \o SeqOf(NewArcs(x, y)) ELSE tail)

\* the lists of arcs the client passes: every arc of the crossword (what
\* ac3 builds when arcs is None), or a few of them
Worklists == {AllArcs} \cup {w \in SUBSET AllArcs : Cardinality(w) <= MaxArcs}

\* the client calls ac3(arcs) with a list of arcs of the crossword
CallAc3Arcs ==
    /\ pc = "idle"
    /\ LengthsOk(domains)
    /\ \E worklist \in Worklists :
          /\ arcsInit' = worklist
          /\ start' = Started(domains, worklist)
    /\ arcs' = <<>>
    /\ emptied' = FALSE
    /\ caller' = "client"
    /\ pc' = "ac3"
    /\ ret' = NoCall
    /\ fixedPoint' = FALSE
    /\ UNCHANGED << variables, overlaps, words, solutions, domains, stack, assignment,
                    result >>

\* the sequence s without its k-th element
Without(s, k) == SubSeq(s, 1, k - 1) \o SubSeq(s, k + 1, Len(s))

\* ac3's loop as it would be if pop took any arc of the list and not the
\* last: an arc of the initial part, or an appended one
Ac3StepAnyOrder ==
    /\ pc = "ac3"
    /\ \/ \E a \in arcsInit : Ac3Turn(a[1], a[2], arcsInit \ {a}, arcs)
       \/ \E k \in DOMAIN arcs :
             Ac3Turn(arcs[k][1], arcs[k][2], arcsInit, Without(arcs, k))
       \/ /\ arcsInit = {}
          /\ arcs = <<>>
          /\ Ac3Leave(TRUE, domains)
          /\ UNCHANGED << arcsInit, arcs, emptied >>

NextAnyOrder ==
    \/ CallEnforceNodeConsistency
    \/ CallAc3Arcs
    \/ Ac3StepAnyOrder

SpecAnyOrder == Init /\ [][NextAnyOrder]_vars

\* ------------------------------------------------------------------------
\* Properties
\* ------------------------------------------------------------------------

\* where the program is inside the backtracking search
SearchPcs == {"backtrack", "loop", "check", "pop", "return"}

\* the words of x and y agree on the cell they share, if they share one
Agree(x, wx, y, wy) ==
    Overlap(x, y) # None => At(wx, Overlap(x, y)[1]) = At(wy, Overlap(x, y)[2])

\* a is a solution: it binds every variable to a word of its length, and
\* overlapping variables agree
IsSolution(a) ==
    /\ DOMAIN a = variables
    /\ \A v \in variables : Len(a[v]) = v.length
    /\ \A x \in variables : \A y \in variables : Agree(x, a[x], y, a[y])

\* a solution exists over the original domains, the word list
Solvable == \E a \in [variables -> words] : IsSolution(a)

\* solve has returned an assignment
SolveReturnedAssignment == ret.op = "solve" /\ ret.val # None

\* C1 (soundness): an assignment returned by solve binds every variable of
\* the crossword, every word has the length of its variable, and every pair
\* of overlapping variables agrees on the shared cell.
C1_Soundness == SolveReturnedAssignment => IsSolution(ret.val[1])

\* solve has returned an assignment of the ring of four slots
C1_Witness == SolveReturnedAssignment /\ variables = StructRing

\* C2 (completeness): when a consistent complete assignment exists over the
\* original domains, solve returns an assignment, not None.
C2_Completeness == (ret.op = "solve" /\ Solvable) => ret.val # None

\* solve has returned on a solvable crossword of three slots whose word
\* list holds words that fit no solution
C2_Witness ==
    /\ SolveReturnedAssignment
    /\ variables = StructH
    /\ \E v \in variables : \E w \in words :
          Len(w) = v.length /\ w \notin domains[v]

\* C3: when the ac3 call of solve returns false, backtrack is not invoked:
\* the search is entered only after ac3 returned true.
C3_NoBacktrackAfterAc3Failure ==
    (caller = "solve" /\ pc \in SearchPcs) => ret.val = TRUE

\* some variable has no word of its length in the word list
MissingLength(v) == \A w \in words : Len(w) # v.length

\* solve is past its call of enforce_node_consistency
InSolve == (caller = "solve" /\ pc \in SearchPcs \cup {"ac3"}) \/ ret.op = "solve"

\* C4 as stated: when the word list has no word of the length of some
\* variable, solve makes no call to backtrack.
C4_NoBacktrackWhenLengthMissing ==
    (\E v \in variables : MissingLength(v)) =>
        ~(caller = "solve" /\ pc \in SearchPcs)

\* C4 as amended: when the word list has no word of the length of some
\* variable, enforce_node_consistency leaves the domain of that variable
\* empty and solve returns None; backtrack is entered, and binds no
\* variable: its first frame returns None without trying a value.
C4_NoBindingWhenLengthMissing ==
    \A v \in variables :
        (MissingLength(v) /\ InSolve) =>
            /\ domains[v] = {}
            /\ assignment = EmptyAssignment
            /\ pc # "check"
            /\ Len(stack) <= 1
            /\ ret.op = "solve" => ret.val = None

\* solve has returned None on the H, where the word list has no word for the
\* ACROSS slot and one DOWN slot keeps a word
C4_Witness ==
    /\ ret.op = "solve"
    /\ ret.val = None
    /\ variables = StructH
    /\ \E v \in variables : MissingLength(v) /\ Neighbors(v) # {}
    /\ \E v \in variables : domains[v] # {}

\* every value of x has a supporting value in y, for every x and y
ArcConsistent(d) ==
    \A x \in variables : \A y \in variables :
        \A vx \in d[x] :
            Overlap(x, y) # None =>
                \E vy \in d[y] : At(vx, Overlap(x, y)[1]) = At(vy, Overlap(x, y)[2])

\* ac3 has returned true and no call has been completed since
Ac3ReturnedTrue == ret.op = "ac3" /\ ret.val = TRUE

\* C5 (arc-consistency fixed point): when ac3, run on the default worklist,
\* has returned true, every value left in the domain of x has a supporting
\* value in the domain of y, for every pair (x, y) that overlaps.
C5_ArcConsistent == Ac3ReturnedTrue => ArcConsistent(domains)

\* ac3 has returned true on the H after pruning a DOWN slot whose domain is
\* not empty
C5_Witness ==
    /\ Ac3ReturnedTrue
    /\ variables = StructH
    /\ \E v \in variables :
          /\ v.direction = DOWN
          /\ domains[v] # {}
          /\ domains[v] # {w \in words : Len(w) = v.length}

\* C6 (length invariant): a step that runs enforce_node_consistency leaves
\* every value of every domain with the length of its variable, and every
\* later step (revise, ac3, the search) keeps it so.
C6_LengthInvariant ==
    [][ /\ (CallEnforceNodeConsistency \/ CallSolve) => LengthsOk(domains')
        /\ LengthsOk(domains) => LengthsOk(domains') ]_vars

\* the search runs on a store from which node consistency removed a word
\* and ac3 another
C6_Witness ==
    /\ pc = "check"
    /\ \E v \in variables :
          /\ \E w \in words : Len(w) # v.length
          /\ \E w \in words : Len(w) = v.length /\ w \notin domains[v]
          /\ domains[v] # {}

\* C7 (monotonic shrinkage): every step of enforce_node_consistency, revise
\* and ac3 leaves each domain a subset of what it was: no value comes back.
C7_MonotonicShrinkage ==
    [][ \A v \in variables : domains'[v] \subseteq domains[v] ]_vars

\* enforce_node_consistency has run again after a revise removed a word
C7_Witness ==
    /\ ret.op = "enforce_node_consistency"
    /\ \E v \in variables : \E w \in words :
          Len(w) = v.length /\ w \notin domains[v]

\* C8 (revise): without an overlap revise(x, y) returns false and changes no
\* domain; with the overlap (i, j) it leaves in the domain of x exactly the
\* values with a supporting value in the domain of y, changes no other
\* domain, and returns true exactly when the domain of x changed.
C8_Revise ==
    ret.op = "revise" =>
        LET x == ret.args[1]
            y == ret.args[2]
            old == ret.pre
        IN  IF Overlap(x, y) = None
            THEN ret.val = FALSE /\ domains = old
            ELSE /\ domains[x] =
                       {vx \in old[x] : \E vy \in old[y] : Agree(x, vx, y, vy)}
                 /\ \A v \in variables : v # x => domains[v] = old[v]
                 /\ ret.val = (domains[x] # old[x])

\* revise has removed some and kept some of the values of x
C8_Witness ==
    /\ ret.op = "revise"
    /\ ret.val = TRUE
    /\ domains[ret.args[1]] # {}

\* C9 (failure of ac3): ac3 returns false exactly when a revise of the run
\* removed a value and left the domain empty; it then returns at once, with
\* the rest of the worklist unprocessed; it returns true only with the
\* worklist empty.
C9_Ac3Result ==
    /\ ret.op = "ac3" => (ret.val = FALSE <=> emptied)
    /\ pc = "ac3" => ~emptied
    /\ Ac3ReturnedTrue => (arcsInit = {} /\ arcs = <<>>)

\* ac3 has returned false with arcs left on the worklist
C9_Witness ==
    /\ ret.op = "ac3"
    /\ ret.val = FALSE
    /\ arcsInit # {}

\* C10 (idempotence): enforce_node_consistency on a node-consistent store
\* changes no domain; ac3 run on a store on which ac3 has returned true
\* changes no domain and returns true.
C10_Idempotence ==
    [][ /\ ((CallEnforceNodeConsistency \/ CallSolve) /\ LengthsOk(domains))
              => domains' = domains
        /\ (pc = "ac3" /\ fixedPoint)
              => (domains' = domains /\ (pc' # "ac3" => ret'.val = TRUE)) ]_vars

\* a second run of ac3, on a store the first run pruned, is about to return
C10_Witness ==
    /\ pc = "ac3"
    /\ fixedPoint
    /\ arcsInit = {}
    /\ arcs = <<>>
    /\ \E v \in variables : \E w \in words :
          Len(w) = v.length /\ w \notin domains[v]

\* ------------------------------------------------------------------------
\* The heuristics called by a client
\* ------------------------------------------------------------------------

\* the assignments a client passes to the heuristics: any set of variables
\* bound, each to one word of its length (the heuristics read which variables
\* are bound, never the words)
AnyWord(v) == CHOOSE w \in VocabularyABC : Len(w) = v.length

Assignments == {[u \in U |-> AnyWord(u)] : U \in SUBSET variables}

\* the client calls order_domain_values(var, assignment)
CallOrderDomainValues ==
    /\ pc = "idle"
    /\ LengthsOk(domains)
    /\ \E var \in variables : \E a \in Assignments :
          \E values \in OrderDomainValues(var, a) :
             ret' = Returned("order_domain_values", << var, a >>, <<>>, values)
    /\ pc' = "answer"
    /\ UNCHANGED << variables, overlaps, words, solutions, start, domains, caller,
                    arcsInit, arcs, stack, assignment, result, emptied, fixedPoint >>

\* the client calls select_unassigned_variable(assignment), the assignment
\* being incomplete (min() of no variable raises ValueError)
CallSelectUnassignedVariable ==
    /\ pc = "idle"
    /\ \E a \in Assignments :
          /\ ~ AssignmentComplete(a)
          /\ \E var \in SelectUnassignedVariable(a) :
                ret' = Returned("select_unassigned_variable", << a >>, <<>>, var)
    /\ pc' = "answer"
    /\ UNCHANGED << variables, overlaps, words, solutions, start, domains, caller,
                    arcsInit, arcs, stack, assignment, result, emptied, fixedPoint >>

\* the client has read the answer of a heuristic and goes on
TakeAnswer ==
    /\ pc = "answer"
    /\ pc' = "idle"
    /\ ret' = NoCall
    /\ UNCHANGED << variables, overlaps, words, solutions, start, domains, caller,
                    arcsInit, arcs, stack, assignment, result, emptied, fixedPoint >>

InitMethods == InitWith(VocabularyABC)

NextMethods ==
    \/ CallEnforceNodeConsistency
    \/ CallRevise
    \/ CallOrderDomainValues
    \/ CallSelectUnassignedVariable
    \/ TakeAnswer

SpecMethods == InitMethods /\ [][NextMethods]_vars

\* ------------------------------------------------------------------------
\* Properties of ac3's order, of the search and of the heuristics
\* ------------------------------------------------------------------------

C12_SolutionsPreserved ==
    \A a \in solutions : \A v \in variables : a[v] \in domains[v]

\* ac3 is running on a crossword that has a solution and has removed a
\* word of the right length from a domain
C12_Witness ==
    /\ pc = "ac3"
    /\ solutions # {}
    /\ \E v \in variables : \E w \in words :
          Len(w) = v.length /\ w \notin domains[v]

\* a frame of backtrack returns in this step
FrameReturns == Len(stack') < Len(stack)

\* C13 as stated: every backtrack frame has unbound its variable by the
\* time it returns, on every return path, success or failure.
C13_UnboundOnEveryReturn ==
    [][FrameReturns => Top.var \notin DOMAIN assignment']_vars

\* C13, amended: the only binding a step of the search adds is that of the
\* variable of the innermost frame; a frame that returns None has unbound
\* its variable; a frame that returns a result leaves the assignment as it
\* is, its variable bound, and the result is that assignment.
C13_UnboundOnFailure ==
    [][/\ DOMAIN assignment' \ DOMAIN assignment # {} =>
            stack # <<>> /\ DOMAIN assignment' \ DOMAIN assignment = {Top.var}
       /\ FrameReturns =>
            IF result' = None
            THEN Top.var \notin DOMAIN assignment'
            ELSE /\ assignment' = assignment
                 /\ Top.var \in DOMAIN assignment
                 /\ result' = Some(assignment)]_vars

\* a frame with a caller frame has tried all its values and returned None
C13_Witness == pc = "return" /\ result = None /\ Len(stack) >= 2

\* C14: whenever a call backtrack(assignment) returns None, the assignment
\* holds exactly the bindings it held when that call began.
C14_RestoredOnFailure ==
    [][(FrameReturns /\ result' = None) => assignment' = Top.entry]_vars

\* on the ring, a call that began with a variable bound has returned None
C14_Witness ==
    /\ pc = "return"
    /\ result = None
    /\ variables = StructRing
    /\ assignment # EmptyAssignment

\* C15: during the whole backtracking search the domains are unchanged;
\* of the solver's state only the assignment (and the search's own frames)
\* changes.
C15_DomainsFrozen ==
    [][(pc \in SearchPcs) => UNCHANGED << domains, variables, overlaps, words >>]_vars

\* the search is about to unbind the second of two bound variables
C15_Witness == pc = "pop" /\ Cardinality(DOMAIN assignment) >= 2

\* order_domain_values has answered: its arguments and the list returned
OrderAnswered == ret.op = "order_domain_values"

\* the unassigned neighbors of var in whose domain no word agrees with value
\* at the overlap
ZeroCompatible(var, a, value) ==
    Cardinality({n \in Neighbors(var) \ DOMAIN a :
        \A word \in domains[n] : ~ Agree(var, value, n, word)})

\* the unassigned neighbors of var in whose domain some word disagrees with
\* value at the overlap
SomeIncompatible(var, a, value) ==
    Cardinality({n \in Neighbors(var) \ DOMAIN a :
        \E word \in domains[n] : ~ Agree(var, value, n, word)})

\* the list vs holds every element of S exactly once
ListsOnce(vs, S) ==
    /\ Len(vs) = Cardinality(S)
    /\ {vs[k] : k \in DOMAIN vs} = S

\* C16 as stated: order_domain_values returns every value of domains[var]
\* exactly once, ascending by the number of unassigned neighbors that have
\* no value compatible with it.
C16_AscendingByZeroCompatible ==
    OrderAnswered =>
        LET var == ret.args[1]
            a == ret.args[2]
            vs == ret.val
        IN  /\ ListsOnce(vs, domains[var])
            /\ \A k \in DOMAIN vs : \A l \in DOMAIN vs :
                  k < l => ZeroCompatible(var, a, vs[k]) <= ZeroCompatible(var, a, vs[l])

\* C16, amended: order_domain_values returns every value of domains[var]
\* exactly once, ascending by the number of unassigned neighbors that have
\* at least one value incompatible with it.
C16_AscendingBySomeIncompatible ==
    OrderAnswered =>
        LET var == ret.args[1]
            a == ret.args[2]
            vs == ret.val
        IN  /\ ListsOnce(vs, domains[var])
            /\ \A k \in DOMAIN vs : \A l \in DOMAIN vs :
                  k < l => SomeIncompatible(var, a, vs[k]) <= SomeIncompatible(var, a, vs[l])

\* order_domain_values has returned a list whose first value conflicts
\* with fewer unassigned neighbors than its last, a neighbor being bound
C16_Witness ==
    /\ OrderAnswered
    /\ Len(ret.val) >= 2
    /\ DOMAIN ret.args[2] \cap Neighbors(ret.args[1]) # {}
    /\ SomeIncompatible(ret.args[1], ret.args[2], ret.val[1])
          < SomeIncompatible(ret.args[1], ret.args[2], ret.val[Len(ret.val)])

\* C17: for every incomplete assignment, select_unassigned_variable
\* returns an unbound variable; no unbound variable has a smaller domain, and
\* among the unbound variables with a domain of that size none has more
\* neighbors.
C17_SelectMinimal ==
    ret.op = "select_unassigned_variable" =>
        LET a == ret.args[1]
            var == ret.val
        IN  /\ var \in variables \ DOMAIN a
            /\ \A u \in variables \ DOMAIN a :
                  /\ Cardinality(domains[var]) <= Cardinality(domains[u])
                  /\ Cardinality(domains[u]) = Cardinality(domains[var]) =>
                        Cardinality(Neighbors(u)) <= Cardinality(Neighbors(var))

\* select_unassigned_variable has preferred a variable to one with a
\* larger domain and to one with as many values and fewer neighbors
C17_Witness ==
    /\ ret.op = "select_unassigned_variable"
    /\ \E u \in variables \ DOMAIN ret.args[1] :
          Cardinality(domains[u]) > Cardinality(domains[ret.val])
    /\ \E u \in variables \ DOMAIN ret.args[1] :
          /\ Cardinality(domains[u]) = Cardinality(domains[ret.val])
          /\ Cardinality(Neighbors(u)) < Cardinality(Neighbors(ret.val))

\* the incremental check: the newly bound variable var has a word of its
\* length that agrees with the word of each of its bound neighbors
IncrementalConsistent(a, var) ==
    /\ Len(a[var]) = var.length
    /\ \A n \in Neighbors(var) \cap DOMAIN a : Agree(var, a[var], n, a[n])

\* C18: at every call of consistent made by backtrack, the full check over
\* all bound pairs gives what the incremental check of the newly bound
\* variable gives, and the search goes on as the incremental check would
\* have it: into the recursive call when it holds, to the unbind when not.
C18_IncrementalCheck ==
    [][(pc = "check") =>
          /\ Consistent(assignment) = IncrementalConsistent(assignment, Top.var)
          /\ (pc' = "backtrack") = IncrementalConsistent(assignment, Top.var)
          /\ (pc' = "pop") = ~ IncrementalConsistent(assignment, Top.var)]_vars

\* consistent is called on the ring with three variables bound, and the
\* newly bound one disagrees with a neighbor
C18_Witness ==
    /\ pc = "check"
    /\ variables = StructRing
    /\ Cardinality(DOMAIN assignment) = 3
    /\ ~ IncrementalConsistent(assignment, Top.var)

\* every word of a has the length of its variable and every two bound
\* variables agree on the cell they share
PairwiseConsistent(a) ==
    /\ \A x \in DOMAIN a : Len(a[x]) = x.length
    /\ \A x \in DOMAIN a : \A y \in DOMAIN a : Agree(x, a[x], y, a[y])

\* the assignment a without the binding of var
Others(a, var) == [v \in DOMAIN a \ {var} |-> a[v]]

\* C20: every assignment with which backtrack is called is consistent and
\* binds each variable to a word of its current domain; during the search an
\* inconsistent assignment exists only between a tentative bind and the
\* check or unbind that follows it, and it is consistent but for the
\* variable just bound.
C20_SearchInvariant ==
    pc \in SearchPcs =>
        /\ \A v \in DOMAIN assignment : assignment[v] \in domains[v]
        /\ pc = "backtrack" => PairwiseConsistent(assignment)
        /\ ~ PairwiseConsistent(assignment) =>
              /\ pc \in {"check", "pop"}
              /\ PairwiseConsistent(Others(assignment, Top.var))

\* a tentative binding that disagrees with an earlier one is about to be
\* undone
C20_Witness ==
    /\ pc = "pop"
    /\ ~ PairwiseConsistent(assignment)
    /\ Cardinality(DOMAIN assignment) >= 2

\* C19 (termination): every run of solve eventually returns to the client:
\* from wherever it is, in ac3's loop or in the backtracking search, the
\* program reaches the return of solve (so ac3's loop is left, the worklist
\* empty or a domain emptied, and backtrack returns an assignment or None).
C19_Termination == (pc # "idle") ~> (pc = "idle" /\ ret.op = "solve")

\* solve has returned on the ring, the word list holding a solution and
\* three words or more
C19_Witness ==
    /\ ret.op = "solve"
    /\ variables = StructRing
    /\ Cardinality(words) >= 3
    /\ solutions # {}

====
